---- MODULE Spec2Model ----
(***************************************************************************)
(* A model of voidism/invrat_debias: the dataset processors of             *)
(* src/src/toxic.py (the seven DataProcessor classes and their            *)
(* _create_examples loops), the feature encoder                            *)
(* glue_convert_examples_to_features, the bias-word stripper               *)
(* src/data/removal.py and the prediction merger src/inv_to_ND.py.         *)
(*                                                                         *)
(* Python values are encoded as follows.                                   *)
(*   - an optional text, task, label list or output mode is <<>> when it   *)
(*     is None and <<v>> when it is v;                                     *)
(*   - None as an env is NoneEnv (-1), the group ids are 0..3;             *)
(*   - a guid "%s-%s" % (set_type, i) is the pair <<set_type, i>>: the     *)
(*     set types hold neither '-' nor digits, so the format is injective;  *)
(*   - a tweet is the sequence of its tokens: a token is a maximal run of  *)
(*     word characters, or BS, one backspace character (\x08) standing     *)
(*     directly behind the token before it; other tokens are separated by  *)
(*     blanks;                                                             *)
(*   - a csv line is the sequence of its cells (strings); Python's index   *)
(*     k >= 0 is position k + 1, index -k is position Len - k + 1;         *)
(*   - a line of a text file of the two scripts is the sequence of its     *)
(*     characters (removal.py) or of its atoms and separators              *)
(*     (inv_to_ND.py), and a csv cell of the merger is such a sequence.    *)
(***************************************************************************)
EXTENDS Integers, Sequences, FiniteSets, TLC

VARIABLES
    \* ---- one call of an example-producing operation of a processor ----
    proc,        \* the processor class
    op,          \* the operation called: get_train_examples, ...
    env_type,    \* the env_type argument (ToxicEnvProcessor only)
    wordlists,   \* the class-level word lists noi/oi/oni (toxic.py 254-256)
    table,       \* what read_csv returned: DataFrame rows, or csv lines
    row_i,       \* Python's loop index i of the next row
    examples,    \* the local list `examples`
    pstatus,     \* "running", "returned" or "raised"
    perror,      \* the exception raised ("" when none)
    \* ---- one call of glue_convert_examples_to_features ----
    call,        \* the arguments: examples, max_length, task, label_list, ...
    tokenizer,   \* the tokenizer argument: whether it truncates to max_length
    label_map,   \* the local label_map: the labels in the order of their indices
    output_mode, \* the local output_mode once the task has been looked up
    ex_index,    \* the index of the next example
    features,    \* the local list `features`
    estatus,     \* "idle", "called", "running", "returned" or "raised"
    eerror,      \* the exception raised ("" when none)
    \* ---- one run of data/removal.py ----
    word_file,   \* the lines of word_based_bias_list.csv
    in_file,     \* f: the lines of the input text file
    bias_words,  \* the list `words`
    f_pos,       \* the lines of f read so far
    fw,          \* the lines written to the output file
    sstatus,     \* "idle", "start", "running" or "done"
    \* ---- one run of inv_to_ND.py ----
    records_file, \* the rows csv.reader finds in the records file (argv[2])
    preds_file,  \* the lines of the predictions file (argv[1])
    c_rows,      \* the list `c`
    preds,       \* the list `preds`
    loop_i,      \* the loop variable `i`
    out_file,    \* the file at the output path (argv[3]): None when there is none
    w_row,       \* the rows of c handed to the writer so far
    mstatus,     \* "idle", "start", "looping", "writing", "done" or "raised"
    merror       \* the exception raised ("" when none)

pvars == <<proc, op, env_type, wordlists, table, row_i, examples, pstatus, perror>>

evars == <<call, tokenizer, label_map, output_mode, ex_index, features, estatus, eerror>>

svars == <<word_file, in_file, bias_words, f_pos, fw, sstatus>>

mvars == <<records_file, preds_file, c_rows, preds, loop_i, out_file, w_row, mstatus, merror>>

vars == <<pvars, evars, svars, mvars>>

\* ------------------------------------------------------------------ bounds
MaxRows == 2      \* data rows of an input table
MaxList == 2      \* terms of one bias word list
MaxWords == 2     \* tokens of a tweet
MaxExamples == 2  \* examples of one call of the encoder
MaxText == 1      \* words of an example's text
MaxLen == 3       \* the max_length argument
MaxChars == 3     \* characters of a line of the stripper's input, its end aside
MaxWordLen == 2   \* characters of a bias word of the stripper

\* ------------------------------------------------------------ Python values
NoneEnv == -1
None == <<>>
Some(t) == <<t>>

\* str() of the integers pandas reads from the ND_label column
Str(n) == CASE n = 0 -> "0" [] n = 1 -> "1" [] n = 2 -> "2" [] OTHER -> "n"

\* float(s): the cells that parse, and the integer part int() keeps of them
FloatParses(s) == s \in {"0", "1", "0.0", "1.0", "1.7"}
IntOfFloat(s) == CASE s \in {"0", "0.0"} -> 0 [] s \in {"1", "1.0", "1.7"} -> 1 [] OTHER -> 0

\* line[k] for k >= 0, line[-k] for k > 0
HasIdx(line, k) == IF k >= 0 THEN k + 1 <= Len(line) ELSE Len(line) + k + 1 >= 1
Idx(line, k) == IF k >= 0 THEN line[k + 1] ELSE line[Len(line) + k + 1]

\* ------------------------------------------------- examples (toxic.py 40-58)
\* transformers.InputExample has the attributes guid, text_a, text_b, label and
\* no env; EnvInputExample (toxic.py 53-58) adds env, None by default.
InputExample(guid, text_a, text_b, label) ==
    [cls |-> "InputExample", guid |-> guid, text_a |-> text_a, text_b |-> text_b,
     label |-> label, env |-> NoneEnv]

EnvInputExample(guid, text_a, text_b, label, env) ==
    [cls |-> "EnvInputExample", guid |-> guid, text_a |-> text_a, text_b |-> text_b,
     label |-> label, env |-> env]

HasEnvAttr(e) == e.cls = "EnvInputExample"

\* "%s-%s" % (set_type, i)
Guid_WithoutIndex(set_type, i) == <<set_type, 0>>
Guid(set_type, i) == <<set_type, i>>

\* ------------------------------------- ToxicEnvProcessor's class attributes
Dialects == {"aav", "hispanic", "white", "other"}
env2id_Swapped(d) ==
    CASE d = "aav" -> 0 [] d = "hispanic" -> 1 [] d = "white" -> 3 [] d = "other" -> 2
env2id(d) == CASE d = "aav" -> 0 [] d = "hispanic" -> 1 [] d = "white" -> 2 [] d = "other" -> 3

\* the dialect value the aae branch compares with (toxic.py 315)
AaeMarker == "aae"

\* The word column of word_based_bias_list.csv by categorization, four terms of
\* each; a run of the program holds a prefix of each (wordlists).  The terms are
\* single alphabetic words, so that a term read as a regular expression matches
\* itself and nothing else.
NoiMaster == <<"noia", "noib", "noic", "noid">>
OiMaster == <<"oia", "oib", "oic", "oid">>
OniMaster == <<"onia", "onib", "onic", "onid">>
NoiUpper == <<"NOIA", "NOIB", "NOIC", "NOID">>
OiUpper == <<"OIA", "OIB", "OIC", "OID">>
OniUpper == <<"ONIA", "ONIB", "ONIC", "ONID">>

\* one backspace character, what "\b" is in a Python string that is not raw
BS == "\\x08"

IsWord(tok) == tok # BS

\* re.IGNORECASE: both sides are compared case-folded
Lower(w) ==
    IF \E j \in 1..4 : w = NoiUpper[j] THEN NoiMaster[CHOOSE j \in 1..4 : w = NoiUpper[j]]
    ELSE IF \E j \in 1..4 : w = OiUpper[j] THEN OiMaster[CHOOSE j \in 1..4 : w = OiUpper[j]]
    ELSE IF \E j \in 1..4 : w = OniUpper[j] THEN OniMaster[CHOOSE j \in 1..4 : w = OniUpper[j]]
    ELSE IF w = "HELLO" THEN "hello"
    ELSE w

\* The alternative r"\bterm\b": the term as a whole token of the tweet.
MatchesWhole(term, tweet) ==
    \E t \in 1..Len(tweet) : IsWord(tweet[t]) /\ Lower(tweet[t]) = Lower(term)

\* The alternative r"\bterm" + "\b": the term at the start of a token and a
\* backspace character directly behind it.
MatchesBackspace(term, tweet) ==
    \E t \in 1..(Len(tweet) - 1) :
        IsWord(tweet[t]) /\ Lower(tweet[t]) = Lower(term) /\ tweet[t + 1] = BS

\* The pattern of an empty list, r"\b" + "" + "\b": a backspace character at a
\* word boundary.
MatchesBareBackspace(tweet) ==
    \E t \in 1..(Len(tweet) - 1) : IsWord(tweet[t]) /\ tweet[t + 1] = BS

\* len(re.compile(r"\b" + r"\b|\b".join(wordlist) + "\b", re.IGNORECASE)
\*     .findall(tweet)) > 0
\* Every term but the last is closed by the r"\b" of the join; the last term is
\* closed by the final "\b", which is not raw.
ReFinds(wordlist, tweet) ==
    IF Len(wordlist) = 0 THEN MatchesBareBackspace(tweet)
    ELSE \/ \E j \in 1..(Len(wordlist) - 1) : MatchesWhole(wordlist[j], tweet)
         \/ MatchesBackspace(wordlist[Len(wordlist)], tweet)

idtyRe(wl, tweet) == ReFinds(wl.noi, tweet)
oiRe(wl, tweet) == ReFinds(wl.oi, tweet)
oniRe(wl, tweet) == ReFinds(wl.oni, tweet)

\* toxic.py 316-324
MentionEnv(wl, tweet) ==
    IF idtyRe(wl, tweet) THEN 0
    ELSE IF oiRe(wl, tweet) THEN 1
    ELSE IF oniRe(wl, tweet) THEN 2
    ELSE 3

\* toxic.py 313-315
AaeEnv(dialect) == IF dialect = AaeMarker THEN 1 ELSE 0

\* ------------------------------------------------------ the seven processors
DataFrameProcessors == {"ToxicNewProcessor", "ToxicEnvProcessor", "ToxicDavisonProcessor"}
CsvProcessors ==
    {"ToxicProcessor", "ToxicTransProcessor", "ToxicTransreProcessor", "ToxicEvalProcessor"}
Processors == DataFrameProcessors \cup CsvProcessors

Operations == {"get_train_examples", "get_dev_examples", "get_test_examples", "get_examples"}

\* the set_type each operation passes on (get_examples passes "dev")
SetType(o) ==
    CASE o = "get_train_examples" -> "train"
      [] o = "get_dev_examples" -> "dev"
      [] o = "get_test_examples" -> "test"
      [] o = "get_examples" -> "dev"

\* the method each operation calls: only get_train_examples of the two
\* translated-pair processors calls _create_examples_trans (toxic.py 411, 479)
Creator(p, o) ==
    IF p \in {"ToxicTransProcessor", "ToxicTransreProcessor"} /\ o = "get_train_examples"
    THEN "_create_examples_trans"
    ELSE "_create_examples"

Ok(out) == [err |-> "", out |-> out]
Raise(e) == [err |-> e, out |-> <<>>]

\* ToxicNewProcessor._create_examples and ToxicDavisonProcessor._create_examples,
\* one iteration
PlainRow(set_type, i, row) ==
    Ok(<<InputExample(Guid(set_type, i), row.tweet, None, Str(row.ND_label))>>)

\* the env of one row (toxic.py 310-326), or the exception
EnvOfRow(et, wl, row) ==
    CASE et = "dialect" ->
            IF row.dialect_argmax \in Dialects
            THEN [err |-> "", env |-> env2id(row.dialect_argmax)]
            ELSE [err |-> "KeyError", env |-> NoneEnv]
      [] et = "aae" -> [err |-> "", env |-> AaeEnv(row.dialect_argmax)]
      [] et = "mention" -> [err |-> "", env |-> MentionEnv(wl, row.tweet)]
      [] OTHER -> [err |-> "ValueError", env |-> NoneEnv]

\* ToxicEnvProcessor._create_examples, one iteration
EnvRow(set_type, et, wl, i, row) ==
    LET e == EnvOfRow(et, wl, row) IN
    IF e.err # "" THEN Raise(e.err)
    ELSE Ok(<<EnvInputExample(Guid(set_type, i), row.tweet, None,
                              Str(row.ND_label), e.env)>>)

\* ToxicProcessor._create_examples, one iteration: EnvInputExample without env
LegacyRow(set_type, i, line) ==
    IF i = 0 THEN Ok(<<>>)
    ELSE IF ~HasIdx(line, -2) THEN Raise("IndexError")
    ELSE Ok(<<EnvInputExample(Guid(set_type, i), Idx(line, -2), None,
                              Idx(line, -1), NoneEnv)>>)

\* _create_examples of ToxicTransProcessor and ToxicTransreProcessor
PositionalRow(set_type, i, line) ==
    IF i = 0 THEN Ok(<<>>)
    ELSE IF ~HasIdx(line, -2) THEN Raise("IndexError")
    ELSE Ok(<<InputExample(Guid(set_type, i), Idx(line, -2), None, Idx(line, -1))>>)

\* ToxicTransProcessor._create_examples_trans, one iteration
TransRow(set_type, i, line) ==
    IF i = 0 THEN Ok(<<>>)
    ELSE IF ~HasIdx(line, 18) THEN Raise("IndexError")
    ELSE IF ~FloatParses(Idx(line, 3)) THEN Raise("ValueError")
    ELSE LET guid == Guid(set_type, i)
             label == Str(IntOfFloat(Idx(line, 3)))
         IN  Ok(<<InputExample(guid, Idx(line, 17), None, label),
                  InputExample(guid, Idx(line, 18), None, label)>>)

\* ToxicTransreProcessor._create_examples_trans, one iteration
TransreRow(set_type, i, line) ==
    IF i = 0 THEN Ok(<<>>)
    ELSE IF ~HasIdx(line, 18) THEN Raise("IndexError")
    ELSE IF ~FloatParses(Idx(line, 3)) THEN Raise("ValueError")
    ELSE Ok(<<InputExample(Guid(set_type, i), Idx(line, 17), Some(Idx(line, 18)),
                           Str(IntOfFloat(Idx(line, 3))))>>)

EvalRow_TranslationFirst(set_type, i, line) ==
    IF i = 0 THEN Ok(<<>>)
    ELSE IF ~HasIdx(line, 11) THEN Raise("IndexError")
    ELSE LET guid == Guid(set_type, i)
             label == Idx(line, 10)
         IN  Ok(<<InputExample(guid, Idx(line, 11), None, label),
                  InputExample(guid, Idx(line, 9), None, label)>>)

\* ToxicEvalProcessor._create_examples, one iteration
EvalRow(set_type, i, line) ==
    IF i = 0 THEN Ok(<<>>)
    ELSE IF ~HasIdx(line, 11) THEN Raise("IndexError")
    ELSE LET guid == Guid(set_type, i)
             label == Idx(line, 10)
         IN  Ok(<<InputExample(guid, Idx(line, 9), None, label),
                  InputExample(guid, Idx(line, 11), None, label)>>)

\* the body of the loop of the method the operation o of processor p runs
RowResult(p, o, et, wl, i, row) ==
    LET st == SetType(o) IN
    CASE p \in {"ToxicNewProcessor", "ToxicDavisonProcessor"} -> PlainRow(st, i, row)
      [] p = "ToxicEnvProcessor" -> EnvRow(st, et, wl, i, row)
      [] p = "ToxicProcessor" -> LegacyRow(st, i, row)
      [] p = "ToxicTransProcessor" ->
            IF Creator(p, o) = "_create_examples_trans" THEN TransRow(st, i, row)
            ELSE PositionalRow(st, i, row)
      [] p = "ToxicTransreProcessor" ->
            IF Creator(p, o) = "_create_examples_trans" THEN TransreRow(st, i, row)
            ELSE PositionalRow(st, i, row)
      [] p = "ToxicEvalProcessor" -> EvalRow(st, i, row)

\* ------------------------------------------------- the processor's actions
\* One iteration of `for (i, line) in enumerate(...)`: the row's examples are
\* appended, or the exception leaves the call.
CreateExamplesStep ==
    /\ pstatus = "running"
    /\ row_i < Len(table)
    /\ LET r == RowResult(proc, op, env_type, wordlists, row_i, table[row_i + 1]) IN
       IF r.err = ""
       THEN /\ examples' = examples \o r.out
            /\ row_i' = row_i + 1
            /\ UNCHANGED <<pstatus, perror>>
       ELSE /\ pstatus' = "raised"
            /\ perror' = r.err
            /\ UNCHANGED <<examples, row_i>>
    /\ UNCHANGED <<proc, op, env_type, wordlists, table>>
    /\ UNCHANGED <<evars, svars, mvars>>

\* `return examples` once the rows are exhausted
CreateExamplesReturn ==
    /\ pstatus = "running"
    /\ row_i = Len(table)
    /\ pstatus' = "returned"
    /\ UNCHANGED <<proc, op, env_type, wordlists, table, row_i, examples, perror>>
    /\ UNCHANGED <<evars, svars, mvars>>

\* ------------------------------------ the tokenizer (toxic.py 129-135)
\* tokenizer.encode_plus(text_a, text_b, add_special_tokens=True, max_length=...)
\* of a BERT-like tokenizer: [CLS] a [SEP], or [CLS] a [SEP] b [SEP], with segment
\* ids 0 and 1.  A tokenizer that truncates removes words, one at a time from the
\* longer text, until the whole fits max_length or no word is left; a tokenizer
\* that does not truncate returns every token.
CLS == 101
SEP == 102

\* the vocabulary's id of a word
TokenId(w) ==
    CASE w = "hello" -> 7 [] w = "world" -> 8 [] w = "again" -> 9 [] OTHER -> 100

Ids(text) == [j \in 1..Len(text) |-> TokenId(text[j])]

Repeat(x, n) == [j \in 1..n |-> x]

RECURSIVE TruncateSequences(_, _, _, _)
TruncateSequences(ids, pair_ids, has_pair, n) ==
    IF n <= 0 \/ (Len(ids) = 0 /\ Len(pair_ids) = 0) THEN <<ids, pair_ids>>
    ELSE IF ~has_pair \/ Len(ids) > Len(pair_ids)
         THEN TruncateSequences(SubSeq(ids, 1, Len(ids) - 1), pair_ids, has_pair, n - 1)
         ELSE TruncateSequences(ids, SubSeq(pair_ids, 1, Len(pair_ids) - 1), has_pair, n - 1)

EncodePlus(tok, text_a, text_b, max_length) ==
    LET has_pair == text_b # None
        ids0 == Ids(text_a)
        pair0 == IF has_pair THEN Ids(text_b[1]) ELSE <<>>
        total == Len(ids0) + Len(pair0) + (IF has_pair THEN 3 ELSE 2)
        kept == IF tok.truncation
                THEN TruncateSequences(ids0, pair0, has_pair, total - max_length)
                ELSE <<ids0, pair0>>
        ids == kept[1]
        pair_ids == kept[2]
    IN  IF has_pair
        THEN [input_ids |-> <<CLS>> \o ids \o <<SEP>> \o pair_ids \o <<SEP>>,
              token_type_ids |-> Repeat(0, Len(ids) + 2) \o Repeat(1, Len(pair_ids) + 1)]
        ELSE [input_ids |-> <<CLS>> \o ids \o <<SEP>>,
              token_type_ids |-> Repeat(0, Len(ids) + 2)]

\* ------------------- glue_convert_examples_to_features (toxic.py 73-195)
GlueProcessors == {"toxic", "toxic-env", "toxic-davison", "toxic_trans"}

\* processor.get_labels(), the same list in every class
GetLabels == <<"0", "1">>

\* glue_output_modes[task] for the tasks glue_processors knows
GlueOutputMode(task) == "classification"

\* float(example.label) in tenths
FloatTenths(s) ==
    CASE s \in {"0", "0.0"} -> 0 [] s \in {"1", "1.0"} -> 10 [] s = "1.7" -> 17 [] OTHER -> 0

InputFeatures(input_ids, attention_mask, token_type_ids, label) ==
    [input_ids |-> input_ids, attention_mask |-> attention_mask,
     token_type_ids |-> token_type_ids, label |-> label]

\* label_map[example.label]: the index of the label in the list (toxic.py 118, 157)
LabelIndex(lm, label) == (CHOOSE j \in 1..Len(lm) : lm[j] = label) - 1
InLabelMap(lm, label) == \E j \in 1..Len(lm) : lm[j] = label

\* toxic.py 156-161: the label of the features, or the exception
ResolveLabel(mode, lm, label) ==
    IF mode = Some("classification")
    THEN IF InLabelMap(lm, label)
         THEN [err |-> "", label |-> [kind |-> "int", val |-> LabelIndex(lm, label)]]
         ELSE [err |-> "KeyError", label |-> None]
    ELSE IF mode = Some("regression")
    THEN IF FloatParses(label)
         THEN [err |-> "", label |-> [kind |-> "float", val |-> FloatTenths(label)]]
         ELSE [err |-> "ValueError", label |-> None]
    ELSE [err |-> "KeyError", label |-> None]

PaddedArrays_PadsOnTheRight(c, example, inputs) ==
    LET input_ids == inputs.input_ids
        real == IF c.mask_padding_with_zero THEN 1 ELSE 0
        pad == IF c.mask_padding_with_zero THEN 0 ELSE 1
        padding_length == c.max_length - Len(input_ids)
    IN  [input_ids |-> input_ids \o Repeat(c.pad_token, padding_length),
         attention_mask |-> Repeat(real, Len(input_ids)) \o Repeat(pad, padding_length),
         token_type_ids |-> Repeat(example.env, Len(inputs.token_type_ids))
                                \o Repeat(c.pad_token_segment_id, padding_length)]

\* toxic.py 139-150: the three arrays after padding.  [x] * n is empty for n <= 0.
PaddedArrays(c, example, inputs) ==
    LET input_ids == inputs.input_ids
        real == IF c.mask_padding_with_zero THEN 1 ELSE 0
        pad == IF c.mask_padding_with_zero THEN 0 ELSE 1
        attention_mask == Repeat(real, Len(input_ids))
        padding_length == c.max_length - Len(input_ids)
        env_span == Repeat(example.env, Len(inputs.token_type_ids))
    IN  IF c.pad_on_left
        THEN [input_ids |-> Repeat(c.pad_token, padding_length) \o input_ids,
              attention_mask |-> Repeat(pad, padding_length) \o attention_mask,
              token_type_ids |-> Repeat(c.pad_token_segment_id, padding_length) \o env_span]
        ELSE [input_ids |-> input_ids \o Repeat(c.pad_token, padding_length),
              attention_mask |-> attention_mask \o Repeat(pad, padding_length),
              token_type_ids |-> env_span \o Repeat(c.pad_token_segment_id, padding_length)]

LengthAsserts_Disabled(c, arrays) == TRUE

\* toxic.py 152-154
LengthAsserts(c, arrays) ==
    /\ Len(arrays.input_ids) = c.max_length
    /\ Len(arrays.attention_mask) = c.max_length
    /\ Len(arrays.token_type_ids) = c.max_length

\* One iteration of the loop (toxic.py 121-175): the features of the example, or
\* the first exception.  Reading example.env of an InputExample, which has no
\* such attribute, raises AttributeError in either branch of the padding.
ConvertExample(c, tok, mode, lm, example) ==
    LET inputs == EncodePlus(tok, example.text_a, example.text_b, c.max_length)
        arrays == PaddedArrays(c, example, inputs)
        lab == ResolveLabel(mode, lm, example.label)
    IN  IF ~HasEnvAttr(example) THEN [err |-> "AttributeError", feature |-> None]
        ELSE IF ~LengthAsserts(c, arrays) THEN [err |-> "AssertionError", feature |-> None]
        ELSE IF lab.err # "" THEN [err |-> lab.err, feature |-> None]
        ELSE [err |-> "",
              feature |-> InputFeatures(arrays.input_ids, arrays.attention_mask,
                                        arrays.token_type_ids, lab.label)]

\* toxic.py 105-120: the task's defaults, then label_map and the empty features
ConvertSetup ==
    /\ estatus = "called"
    /\ LET known == call.task = None \/ call.task[1] \in GlueProcessors
           ll == IF call.task # None /\ call.label_list = None
                 THEN Some(GetLabels) ELSE call.label_list
           om == IF call.task # None /\ call.output_mode = None
                 THEN Some(GlueOutputMode(call.task[1])) ELSE call.output_mode
       IN  IF ~known
           THEN /\ estatus' = "raised" /\ eerror' = "KeyError"
                /\ UNCHANGED <<label_map, output_mode>>
           ELSE IF ll = None
           THEN /\ estatus' = "raised" /\ eerror' = "TypeError"
                /\ UNCHANGED <<label_map, output_mode>>
           ELSE /\ estatus' = "running" /\ eerror' = ""
                /\ label_map' = ll[1]
                /\ output_mode' = om
    /\ UNCHANGED <<call, tokenizer, ex_index, features>>
    /\ UNCHANGED <<pvars, svars, mvars>>

ConvertStep_SkipsMalformed ==
    /\ estatus = "running"
    /\ ex_index < Len(call.examples)
    /\ LET r == ConvertExample(call, tokenizer, output_mode, label_map,
                               call.examples[ex_index + 1]) IN
       /\ features' = IF r.err = "" THEN Append(features, r.feature) ELSE features
       /\ ex_index' = ex_index + 1
       /\ UNCHANGED <<estatus, eerror>>
    /\ UNCHANGED <<call, tokenizer, label_map, output_mode>>
    /\ UNCHANGED <<pvars, svars, mvars>>

\* one iteration of `for (ex_index, example) in enumerate(examples)`
ConvertStep ==
    /\ estatus = "running"
    /\ ex_index < Len(call.examples)
    /\ LET r == ConvertExample(call, tokenizer, output_mode, label_map,
                               call.examples[ex_index + 1]) IN
       IF r.err = ""
       THEN /\ features' = Append(features, r.feature)
            /\ ex_index' = ex_index + 1
            /\ UNCHANGED <<estatus, eerror>>
       ELSE /\ estatus' = "raised"
            /\ eerror' = r.err
            /\ UNCHANGED <<features, ex_index>>
    /\ UNCHANGED <<call, tokenizer, label_map, output_mode>>
    /\ UNCHANGED <<pvars, svars, mvars>>

\* `return features` (toxic.py 195)
ConvertReturn ==
    /\ estatus = "running"
    /\ ex_index = Len(call.examples)
    /\ estatus' = "returned"
    /\ UNCHANGED <<call, tokenizer, label_map, output_mode, ex_index, features, eerror>>
    /\ UNCHANGED <<pvars, svars, mvars>>

\* ------------------------------ the bias-word stripper (data/removal.py)
\* s.split(sep): the pieces of s between the occurrences of sep
RECURSIVE Split(_, _)
Split(s, sep) ==
    IF \A j \in 1..Len(s) : s[j] # sep THEN <<s>>
    ELSE LET at == CHOOSE j \in 1..Len(s) : s[j] = sep /\ \A h \in 1..(j - 1) : s[h] # sep
         IN  <<SubSeq(s, 1, at - 1)>> \o Split(SubSeq(s, at + 1, Len(s)), sep)

\* re.sub(word, '', line) for a word without metacharacters: one scan from the
\* left, every occurrence met is dropped and the scan goes on behind it; what
\* has been scanned is not looked at again.  The empty pattern changes nothing.
RECURSIVE ReSub(_, _)
ReSub(word, line) ==
    IF Len(word) = 0 \/ Len(line) < Len(word) THEN line
    ELSE IF SubSeq(line, 1, Len(word)) = word
         THEN ReSub(word, SubSeq(line, Len(word) + 1, Len(line)))
         ELSE <<Head(line)>> \o ReSub(word, Tail(line))

\* removal.py 12-17: the words in list order, each on what the words before left
RECURSIVE RemoveWords(_, _)
RemoveWords(ws, line) ==
    IF ws = <<>> THEN line ELSE RemoveWords(Tail(ws), ReSub(Head(ws), line))

\* removal.py 3-10: the first field of every line but the first of the word
\* file; the input is opened, the output opened for writing
RemovalReadWords ==
    /\ sstatus = "start"
    /\ bias_words' = [k \in 1..(Len(word_file) - 1) |-> Split(word_file[k + 1], ",")[1]]
    /\ fw' = <<>>
    /\ f_pos' = 0
    /\ sstatus' = "running"
    /\ UNCHANGED <<word_file, in_file>>
    /\ UNCHANGED <<pvars, evars, mvars>>

\* one iteration of `for line in f` (removal.py 11-18); the matches it prints
\* are not part of the state
RemovalLine ==
    /\ sstatus = "running"
    /\ f_pos < Len(in_file)
    /\ fw' = Append(fw, RemoveWords(bias_words, in_file[f_pos + 1]))
    /\ f_pos' = f_pos + 1
    /\ UNCHANGED <<word_file, in_file, bias_words, sstatus>>
    /\ UNCHANGED <<pvars, evars, mvars>>

\* the input is exhausted and the script ends
RemovalExit ==
    /\ sstatus = "running"
    /\ f_pos = Len(in_file)
    /\ sstatus' = "done"
    /\ UNCHANGED <<word_file, in_file, bias_words, f_pos, fw>>
    /\ UNCHANGED <<pvars, evars, mvars>>

\* --------------------------------- the prediction merger (inv_to_ND.py)
\* A line of the predictions file is a sequence of atoms, strings that hold no
\* separator, with TAB and COMMA between them; a csv cell is such a sequence
\* without COMMA.  No line holds a quote character.
TAB == "\t"
COMMA == ","

Cell(atom) == <<atom>>

\* what csv.reader makes of one line: no cell of an empty line, else the pieces
\* between the commas
CsvReaderRow(line) == IF line = <<>> THEN <<>> ELSE Split(line, COMMA)
CsvReader(file) == [k \in 1..Len(file) |-> CsvReaderRow(file[k])]

\* what stands at the output path before a run that finds a file there
OldOutput == <<<<Cell("stale")>>>>

\* inv_to_ND.py 4-9: both files are read, the header row is extended; c[0] of
\* an empty list raises IndexError
MergeRead ==
    /\ mstatus = "start"
    /\ preds' = CsvReader(preds_file)
    /\ IF Len(records_file) = 0
       THEN /\ c_rows' = records_file
            /\ mstatus' = "raised" /\ merror' = "IndexError"
            /\ UNCHANGED loop_i
       ELSE /\ c_rows' = [records_file EXCEPT
                             ![1] = @ \o <<Cell("invariant"), Cell("variant")>>]
            /\ mstatus' = "looping" /\ merror' = ""
            /\ loop_i' = 1
    /\ UNCHANGED <<records_file, preds_file, out_file, w_row>>
    /\ UNCHANGED <<pvars, evars, svars>>

MergeRow_OpensOutputFirst ==
    /\ mstatus = "looping"
    /\ loop_i < Len(c_rows)
    /\ out_file' = Some(<<>>)
    /\ IF loop_i > Len(preds) \/ Len(preds[loop_i]) = 0
       THEN /\ mstatus' = "raised" /\ merror' = "IndexError"
            /\ UNCHANGED <<c_rows, loop_i>>
       ELSE LET pred == Split(preds[loop_i][1], TAB) IN
            IF Len(pred) < 3
            THEN /\ mstatus' = "raised" /\ merror' = "IndexError"
                 /\ c_rows' = IF Len(pred) < 2 THEN c_rows
                               ELSE [c_rows EXCEPT ![loop_i + 1] = Append(@, pred[2])]
                 /\ UNCHANGED loop_i
            ELSE /\ c_rows' = [c_rows EXCEPT ![loop_i + 1] = @ \o <<pred[2], pred[3]>>]
                 /\ loop_i' = loop_i + 1
                 /\ UNCHANGED <<mstatus, merror>>
    /\ UNCHANGED <<records_file, preds_file, preds, w_row>>
    /\ UNCHANGED <<pvars, evars, svars>>

\* One iteration of `for i in range(1, len(c))` (inv_to_ND.py 10-13).  preds[i-1]
\* and its [0] raise IndexError when the row or its first cell is missing; the
\* first cell is split at the tabs, and pred[1] is appended before pred[2] is
\* read.
MergeRow ==
    /\ mstatus = "looping"
    /\ loop_i < Len(c_rows)
    /\ IF loop_i > Len(preds) \/ Len(preds[loop_i]) = 0
       THEN /\ mstatus' = "raised" /\ merror' = "IndexError"
            /\ UNCHANGED <<c_rows, loop_i>>
       ELSE LET pred == Split(preds[loop_i][1], TAB) IN
            IF Len(pred) < 3
            THEN /\ mstatus' = "raised" /\ merror' = "IndexError"
                 /\ c_rows' = IF Len(pred) < 2 THEN c_rows
                               ELSE [c_rows EXCEPT ![loop_i + 1] = Append(@, pred[2])]
                 /\ UNCHANGED loop_i
            ELSE /\ c_rows' = [c_rows EXCEPT ![loop_i + 1] = @ \o <<pred[2], pred[3]>>]
                 /\ loop_i' = loop_i + 1
                 /\ UNCHANGED <<mstatus, merror>>
    /\ UNCHANGED <<records_file, preds_file, preds, out_file, w_row>>
    /\ UNCHANGED <<pvars, evars, svars>>

\* open(sys.argv[3], 'w') behind the loop (inv_to_ND.py 15): the file is created
\* or emptied
MergeOpen ==
    /\ mstatus = "looping"
    /\ loop_i >= Len(c_rows)
    /\ out_file' = Some(<<>>)
    /\ w_row' = 0
    /\ mstatus' = "writing"
    /\ UNCHANGED <<records_file, preds_file, c_rows, preds, loop_i, merror>>
    /\ UNCHANGED <<pvars, evars, svars>>

\* one iteration of `for i in c: w.writerow(i)` (inv_to_ND.py 16-17)
MergeWriteRow ==
    /\ mstatus = "writing"
    /\ w_row < Len(c_rows)
    /\ out_file' = Some(Append(out_file[1], c_rows[w_row + 1]))
    /\ w_row' = w_row + 1
    /\ UNCHANGED <<records_file, preds_file, c_rows, preds, loop_i, mstatus, merror>>
    /\ UNCHANGED <<pvars, evars, svars>>

\* every row is written and the script ends
MergeExit ==
    /\ mstatus = "writing"
    /\ w_row = Len(c_rows)
    /\ mstatus' = "done"
    /\ UNCHANGED <<records_file, preds_file, c_rows, preds, loop_i, out_file, w_row, merror>>
    /\ UNCHANGED <<pvars, evars, svars>>

\* ------------------------------------------------------------------ inputs
SeqsUpTo(S, n) == UNION {[1..k -> S] : k \in 0..n}

\* the values of the dialect_argmax column: the four of env2id and two others
DialectValues == Dialects \cup {"aae", "unknown_region"}

\* the env_type strings: the three the code knows and one it does not
EnvTypes == {"dialect", "aae", "mention", "group"}

\* the word lists as loaded: the first n0, n1, n2 terms of each list
WordLists(n0, n1, n2) ==
    [noi |-> SubSeq(NoiMaster, 1, n0), oi |-> SubSeq(OiMaster, 1, n1),
     oni |-> SubSeq(OniMaster, 1, n2)]

\* DataFrames with the columns tweet, ND_label, dialect_argmax
Frames(tweets, labels, dialects) ==
    SeqsUpTo([tweet : tweets, ND_label : labels, dialect_argmax : dialects], MaxRows)

PlainTweets == {<<"hello", "world">>, <<"noia">>}

\* csv files as csv.reader returns them: no line at all, or a header line and up
\* to MaxRows data lines of one of three layouts
TextCells == {"hello", "hola"}
LabelCells == {"0", "1.0", "x"}

\* ..., label (a decimal) in column 3, ..., text in 17, translation in 18
TransLine(t, tr, l) ==
    [j \in 1..19 |-> CASE j = 4 -> l [] j = 18 -> t [] j = 19 -> tr [] OTHER -> ""]
\* ..., text in column 9, label in 10, translated text in 11
EvalLine(t, l, tr) ==
    [j \in 1..12 |-> CASE j = 10 -> t [] j = 11 -> l [] j = 12 -> tr [] OTHER -> ""]
\* an id, the tweet, the label
PapiLine(t, l) == <<"", t, l>>

TransLines == {TransLine(t, tr, l) : t \in TextCells, tr \in TextCells, l \in LabelCells}
EvalLines == {EvalLine(t, l, tr) : t \in TextCells, tr \in TextCells, l \in LabelCells}
PapiLines == {PapiLine(t, l) : t \in TextCells, l \in LabelCells}

HeaderOf(lines) == [j \in 1..Len(CHOOSE l \in lines : TRUE) |-> "column"]

CsvFilesOf(lines) == {<<HeaderOf(lines)>> \o d : d \in SeqsUpTo(lines, MaxRows)}

CsvFiles == {<<>>} \cup CsvFilesOf(TransLines) \cup CsvFilesOf(EvalLines) \cup CsvFilesOf(PapiLines)

\* ---------------------------------------------------------- specifications
EncoderIdle ==
    /\ call = None
    /\ tokenizer = None
    /\ label_map = <<>>
    /\ output_mode = None
    /\ ex_index = 0
    /\ features = <<>>
    /\ estatus = "idle"
    /\ eerror = ""

ProcessorIdle ==
    /\ proc = ""
    /\ op = ""
    /\ env_type = ""
    /\ wordlists = WordLists(0, 0, 0)
    /\ table = <<>>
    /\ row_i = 0
    /\ examples = <<>>
    /\ pstatus = "idle"
    /\ perror = ""

StripperIdle ==
    /\ word_file = <<>>
    /\ in_file = <<>>
    /\ bias_words = <<>>
    /\ f_pos = 0
    /\ fw = <<>>
    /\ sstatus = "idle"

MergerIdle ==
    /\ records_file = <<>>
    /\ preds_file = <<>>
    /\ c_rows = <<>>
    /\ preds = <<>>
    /\ loop_i = 0
    /\ out_file = None
    /\ w_row = 0
    /\ mstatus = "idle"
    /\ merror = ""

\* Any operation of any processor, on any table of its kind.
InitProc ==
    /\ proc \in Processors
    /\ op \in Operations
    /\ wordlists = WordLists(MaxList, MaxList, MaxList)
    /\ \/ /\ proc = "ToxicEnvProcessor"
          /\ env_type \in EnvTypes
          /\ table \in Frames(PlainTweets, {0, 1}, DialectValues)
       \/ /\ proc \in DataFrameProcessors \ {"ToxicEnvProcessor"}
          /\ env_type = "dialect"
          /\ table \in Frames(PlainTweets, {0, 1}, {"other"})
       \/ /\ proc \in CsvProcessors
          /\ env_type = "dialect"
          /\ table \in CsvFiles
    /\ row_i = 0
    /\ examples = <<>>
    /\ pstatus = "running"
    /\ perror = ""
    /\ EncoderIdle
    /\ StripperIdle
    /\ MergerIdle

NextProc == CreateExamplesStep \/ CreateExamplesReturn

SpecProc == InitProc /\ [][NextProc]_vars

\* A word list of a run is never empty here; the tweets hold the listed terms in
\* lower case, some in upper case, a longer word, an unlisted word and BS.
MentionTokens ==
    {NoiMaster[j] : j \in 1..MaxList} \cup {OiMaster[j] : j \in 1..MaxList}
        \cup {OniMaster[j] : j \in 1..MaxList}
        \cup {"NOIA", "noias", "hello", BS}

MentionTweets == SeqsUpTo(MentionTokens, MaxWords)

\* ToxicEnvProcessor in mention mode, on tweets that mention listed terms.
InitMention ==
    /\ proc = "ToxicEnvProcessor"
    /\ op = "get_train_examples"
    /\ env_type = "mention"
    /\ \E n0 \in 1..MaxList, n1 \in 1..MaxList, n2 \in 1..MaxList :
           wordlists = WordLists(n0, n1, n2)
    /\ table \in Frames(MentionTweets, {0}, {"white"})
    /\ row_i = 0
    /\ examples = <<>>
    /\ pstatus = "running"
    /\ perror = ""
    /\ EncoderIdle
    /\ StripperIdle
    /\ MergerIdle

SpecMention == InitMention /\ [][NextProc]_vars

\* The examples of a call: plain InputExamples and EnvInputExamples without and
\* with a group, their texts the first words of a sentence, their labels one of
\* the label list and one that is neither listed nor a number.
Sentence == <<"hello", "world", "again", "today">>
EncTexts == {SubSeq(Sentence, 1, n) : n \in 0..MaxText}
EncLabels == {"1", "x"}
EncExamples ==
    {InputExample(Guid("train", 0), t, None, l) : t \in EncTexts, l \in EncLabels}
        \cup {EnvInputExample(Guid("train", 0), t, None, l, e) :
                  t \in EncTexts, l \in EncLabels, e \in {NoneEnv, 2}}

\* the list's k-th example carries the guid of row k - 1
EncExampleLists ==
    {[k \in 1..Len(l) |-> [l[k] EXCEPT !.guid = Guid("train", k - 1)]] :
         l \in SeqsUpTo(EncExamples, MaxExamples)}

\* pad_token and pad_token_segment_id as BERT-like and XLNet-like models set them
PadPairs == {<<0, 0>>, <<5, 4>>}

\* A call in classification mode with the label list of the processors.
InitEnc ==
    /\ ProcessorIdle
    /\ \E ex \in EncExampleLists, ml \in 1..MaxLen, left \in BOOLEAN, pp \in PadPairs,
          mz \in BOOLEAN :
           call = [examples |-> ex, max_length |-> ml, task |-> None,
                   label_list |-> Some(GetLabels), output_mode |-> Some("classification"),
                   pad_on_left |-> left, pad_token |-> pp[1],
                   pad_token_segment_id |-> pp[2], mask_padding_with_zero |-> mz]
    /\ tokenizer \in [truncation : BOOLEAN]
    /\ label_map = <<>>
    /\ output_mode = None
    /\ ex_index = 0
    /\ features = <<>>
    /\ estatus = "called"
    /\ eerror = ""
    /\ StripperIdle
    /\ MergerIdle

NextEnc == ConvertSetup \/ ConvertStep \/ ConvertReturn

SpecEnc == InitEnc /\ [][NextEnc]_vars

\* The ways to say how labels resolve: no task, a task of glue_processors or one
\* of glue_output_modes only; a label list or none; an output mode or none.  The
\* examples all encode: only their labels differ, one of the label list, a
\* decimal that is not, and one that is neither.
LabelTasks == {None, Some("toxic-env"), Some("sts-b")}
LabelLists == {None, Some(GetLabels)}
LabelModes == {None, Some("classification"), Some("regression")}
LabelCallLabels == {"1", "1.7", "x"}
LabelExampleLists ==
    {[k \in 1..Len(l) |-> EnvInputExample(Guid("train", k - 1), <<>>, None, l[k], 2)] :
         l \in SeqsUpTo(LabelCallLabels, MaxExamples)}

InitLabel ==
    /\ ProcessorIdle
    /\ \E ex \in LabelExampleLists, t \in LabelTasks, ll \in LabelLists, om \in LabelModes :
           call = [examples |-> ex, max_length |-> MaxLen, task |-> t,
                   label_list |-> ll, output_mode |-> om,
                   pad_on_left |-> FALSE, pad_token |-> 0,
                   pad_token_segment_id |-> 0, mask_padding_with_zero |-> TRUE]
    /\ tokenizer = [truncation |-> TRUE]
    /\ label_map = <<>>
    /\ output_mode = None
    /\ ex_index = 0
    /\ features = <<>>
    /\ estatus = "called"
    /\ eerror = ""
    /\ StripperIdle
    /\ MergerIdle

SpecLabel == InitLabel /\ [][NextEnc]_vars

\* The stripper's files: lines over two letters, each ended by a newline; words
\* of those letters, one per line of the word file behind its header, each
\* followed by its categorization.
Letters == {"a", "b"}
StripLines == {l \o <<"\n">> : l \in SeqsUpTo(Letters, MaxChars)}
StripWords == SeqsUpTo(Letters, MaxWordLen) \ {<<>>}
WordFileLine(word) == word \o <<",", "c", "\n">>
WordFiles ==
    {<<WordFileLine(<<"w">>)>> \o [k \in 1..Len(ws) |-> WordFileLine(ws[k])] :
         ws \in SeqsUpTo(StripWords, MaxList)}

InitStrip ==
    /\ ProcessorIdle
    /\ EncoderIdle
    /\ word_file \in WordFiles
    /\ in_file \in SeqsUpTo(StripLines, MaxRows)
    /\ bias_words = <<>>
    /\ f_pos = 0
    /\ fw = <<>>
    /\ sstatus = "start"
    /\ MergerIdle

NextStrip == RemovalReadWords \/ RemovalLine \/ RemovalExit

SpecStrip == InitStrip /\ [][NextStrip]_vars

\* The merger's files.  The records: no row at all, or a header and up to MaxRows
\* data rows, the k-th carrying k.  A prediction line: the first atoms of one of
\* two lines of four atoms, a TAB or a COMMA between neighbours; the empty line
\* is among them.
RecordHeader == <<Cell("id"), Cell("tweet")>>
RecordRow(k) == <<Cell(Str(k)), Cell("text")>>
RecordFiles ==
    {<<>>} \cup {<<RecordHeader>> \o [k \in 1..n |-> RecordRow(k)] : n \in 0..MaxRows}

PredAtoms == {<<"7", "0.1", "0.9", "x">>, <<"8", "0.2", "0.8", "y">>}
PredLine(atoms, n, seps) ==
    [j \in 1..(2 * n - 1) |-> IF j % 2 = 1 THEN atoms[(j + 1) \div 2] ELSE seps[j \div 2]]
PredLines ==
    UNION {UNION {{PredLine(a, n, seps) : seps \in [1..(n - 1) -> {TAB, COMMA}]} :
                      n \in 0..Len(a)} : a \in PredAtoms}

InitMerge ==
    /\ ProcessorIdle
    /\ EncoderIdle
    /\ StripperIdle
    /\ records_file \in RecordFiles
    /\ preds_file \in SeqsUpTo(PredLines, MaxRows)
    /\ c_rows = <<>>
    /\ preds = <<>>
    /\ loop_i = 0
    /\ out_file \in {None, Some(OldOutput)}
    /\ w_row = 0
    /\ mstatus = "start"
    /\ merror = ""

NextMerge == MergeRead \/ MergeRow \/ MergeOpen \/ MergeWriteRow \/ MergeExit

SpecMerge == InitMerge /\ [][NextMerge]_vars

\* ================================================================= claims
\* the data rows of the table: a csv file's first line is its header
IsCsv == proc \in CsvProcessors
DataRows == IF IsCsv THEN (IF Len(table) = 0 THEN 0 ELSE Len(table) - 1) ELSE Len(table)
\* the k-th data row (k >= 1) and Python's index i of it
DataRow(k) == IF IsCsv THEN table[k + 1] ELSE table[k]
RowIndex(k) == IF IsCsv THEN k ELSE k - 1

Returned == pstatus = "returned"

\* ---- C5
\* The group the claim gives a tweet: the index of the first list (noi, oi, oni)
\* one of whose terms, whichever its place in the list, is a whole word of the
\* tweet, compared without case; 3 when there is none.
ListMentioned(wordlist, tweet) ==
    \E j \in 1..Len(wordlist) : \E t \in 1..Len(tweet) :
        tweet[t] # BS /\ Lower(tweet[t]) = Lower(wordlist[j])

ClaimedGroup(wl, tweet) ==
    IF ListMentioned(wl.noi, tweet) THEN 0
    ELSE IF ListMentioned(wl.oi, tweet) THEN 1
    ELSE IF ListMentioned(wl.oni, tweet) THEN 2
    ELSE 3

\* C5: in mention mode every returned example carries the group of the first
\* word list with a term that is a whole word of its tweet, whatever the place
\* of the term in its list, and 3 when no list has one.
C5_MentionPriority ==
    (Returned /\ proc = "ToxicEnvProcessor" /\ env_type = "mention") =>
        /\ Len(examples) = Len(table)
        /\ \A k \in 1..Len(table) :
               examples[k].env = ClaimedGroup(wordlists, table[k].tweet)

\* ---- C6
\* the mapping as the claim states it
ClaimedDialectGroup(d) ==
    CASE d = "aav" -> 0 [] d = "hispanic" -> 1 [] d = "white" -> 2 [] d = "other" -> 3
      [] OTHER -> NoneEnv
ClaimedDialects == {"aav", "hispanic", "white", "other"}

InDialectMode == proc = "ToxicEnvProcessor" /\ env_type = "dialect"

\* C6: in dialect mode every example carries the group aav->0, hispanic->1,
\* white->2, other->3 of its row and the row's label as a string; the loop never
\* passes a row with another dialect value: the call raises KeyError at the
\* first such row and returns nothing, whatever the rows before it were.
C6_DialectMapping ==
    InDialectMode =>
        /\ Len(examples) = row_i
        /\ \A k \in 1..row_i :
               /\ table[k].dialect_argmax \in ClaimedDialects
               /\ examples[k].env = ClaimedDialectGroup(table[k].dialect_argmax)
               /\ examples[k].label = (IF table[k].ND_label = 0 THEN "0" ELSE "1")
               /\ examples[k].text_a = table[k].tweet
        /\ Returned => row_i = Len(table)
        /\ (\E k \in 1..Len(table) : table[k].dialect_argmax \notin ClaimedDialects)
               => ~Returned
        /\ pstatus = "raised" =>
               /\ perror = "KeyError"
               /\ table[row_i + 1].dialect_argmax \notin ClaimedDialects

\* the row of the spec's scenario, accepted, and the row behind it refused
C6_Witness ==
    /\ InDialectMode
    /\ pstatus = "raised"
    /\ row_i = 1
    /\ table[1] = [tweet |-> <<"hello", "world">>, ND_label |-> 0, dialect_argmax |-> "white"]
    /\ examples[1].env = 2
    /\ examples[1].label = "0"
    /\ table[2].dialect_argmax = "unknown_region"

\* ---- C7
KnownEnvTypes == {"dialect", "aae", "mention"}

\* C7: with an env_type other than 'dialect', 'aae' and 'mention' no operation of
\* ToxicEnvProcessor returns a list of examples, whatever the table.
C7_InvalidModeNeverReturns ==
    (proc = "ToxicEnvProcessor" /\ env_type \notin KnownEnvTypes) => ~Returned

\* ---- C8
\* C8: in aae mode the call never raises, and the returned examples carry env 1
\* exactly on the rows whose dialect is "aav", the key dialect mode maps to 0.
C8_AaeMarksAavRows ==
    (proc = "ToxicEnvProcessor" /\ env_type = "aae") =>
        /\ pstatus # "raised"
        /\ Returned =>
               /\ Len(examples) = Len(table)
               /\ \A k \in 1..Len(table) :
                      examples[k].env = (IF table[k].dialect_argmax = "aav" THEN 1 ELSE 0)

\* ---- C9
PairEmitter ==
    \/ proc = "ToxicEvalProcessor"
    \/ proc = "ToxicTransProcessor" /\ op = "get_train_examples"

ClaimedSplit ==
    CASE op = "get_train_examples" -> "train"
      [] op = "get_test_examples" -> "test"
      [] OTHER -> "dev"

\* C9 as stated: the guids of a returned list are "{split}-{row_index}" and no
\* two examples of the list share one.
C9_GuidsAllDistinct ==
    Returned =>
        /\ \A j \in 1..Len(examples) :
               \E i \in 0..Len(table) : examples[j].guid = <<ClaimedSplit, i>>
        /\ \A j1, j2 \in 1..Len(examples) :
               examples[j1].guid = examples[j2].guid => j1 = j2

\* C9 amended: the guids of a returned list are "{split}-{row_index}"; they are
\* pairwise distinct when the operation emits one example per row, and where it
\* emits two per row (ToxicTransProcessor.get_train_examples, every operation of
\* ToxicEvalProcessor) a guid is shared by exactly the two examples of one row.
C9_GuidsDistinctPerRow ==
    Returned =>
        LET per == IF PairEmitter THEN 2 ELSE 1 IN
        /\ Len(examples) = per * DataRows
        /\ \A j \in 1..Len(examples) :
               examples[j].guid = <<ClaimedSplit, RowIndex(((j - 1) \div per) + 1)>>
        /\ \A j1, j2 \in 1..Len(examples) :
               examples[j1].guid = examples[j2].guid
                   <=> ((j1 - 1) \div per) = ((j2 - 1) \div per)

\* two rows through a pair emitter: four examples, two guids
C9_Witness ==
    /\ Returned
    /\ PairEmitter
    /\ DataRows = 2
    /\ Len(examples) = 4
    /\ examples[1].guid = examples[2].guid
    /\ examples[2].guid # examples[3].guid

\* ---- C10
\* the columns (Python's indices) of the text, the translation and the label
TextCol == IF proc = "ToxicEvalProcessor" THEN 9 ELSE 17
TransCol == IF proc = "ToxicEvalProcessor" THEN 11 ELSE 18
LabelCol == IF proc = "ToxicEvalProcessor" THEN 10 ELSE 3
ClaimedLabel(cell) ==
    IF proc = "ToxicEvalProcessor" THEN cell
    ELSE CASE cell \in {"0", "0.0"} -> "0" [] cell \in {"1", "1.0", "1.7"} -> "1" [] OTHER -> "?"

PairsInRowOrder ==
    /\ Len(examples) = 2 * DataRows
    /\ \A k \in 1..DataRows :
           LET line == DataRow(k)
               a == examples[2 * k - 1]
               b == examples[2 * k]
           IN  /\ Len(line) > TransCol
               /\ a.text_a = line[TextCol + 1]
               /\ b.text_a = line[TransCol + 1]
               /\ a.label = ClaimedLabel(line[LabelCol + 1])
               /\ b.label = a.label
               /\ b.guid = a.guid
               /\ a.text_b = None /\ b.text_b = None

\* C10 as stated: every operation of ToxicTransProcessor and ToxicEvalProcessor
\* returns, for each data row in order, the original and then the translation,
\* with one label and one guid: 2n examples for n data rows.
C10_PairsFromEveryOperation ==
    (Returned /\ proc \in {"ToxicTransProcessor", "ToxicEvalProcessor"}) => PairsInRowOrder

\* C10 amended: that holds of ToxicTransProcessor.get_train_examples and of every
\* operation of ToxicEvalProcessor; get_dev_examples, get_test_examples and
\* get_examples of ToxicTransProcessor return one example per data row, its text
\* the second-to-last cell and its label the last cell.
C10_PairsFromPairEmitters ==
    /\ (Returned /\ PairEmitter) => PairsInRowOrder
    /\ (Returned /\ proc = "ToxicTransProcessor" /\ op # "get_train_examples") =>
           /\ Len(examples) = DataRows
           /\ \A k \in 1..DataRows :
                  /\ examples[k].text_a = DataRow(k)[Len(DataRow(k)) - 1]
                  /\ examples[k].label = DataRow(k)[Len(DataRow(k))]

\* two rows through _create_examples_trans, the text and its translation differing
C10_Witness ==
    /\ Returned
    /\ proc = "ToxicTransProcessor" /\ op = "get_train_examples"
    /\ DataRows = 2
    /\ Len(examples) = 4
    /\ examples[1].text_a # examples[2].text_a
    /\ examples[1].label = "1"

\* ------------------------------------------------------ the encoder's claims
EncReturned == estatus = "returned"
EncRaised == estatus = "raised"

\* what the tokenizer returns for the k-th example of the call
TokensOf(k) ==
    EncodePlus(tokenizer, call.examples[k].text_a, call.examples[k].text_b,
               call.max_length).input_ids

\* ---- C1
\* C1: every feature record the encoder has appended, and so every record of a
\* returned list, has input_ids, attention_mask and token_type_ids of length
\* exactly max_length.
C1_ArraysHaveMaxLength ==
    \A k \in 1..Len(features) :
        /\ Len(features[k].input_ids) = call.max_length
        /\ Len(features[k].attention_mask) = call.max_length
        /\ Len(features[k].token_type_ids) = call.max_length

\* a returned list of two records, the first of them padded
C1_Witness ==
    /\ EncReturned
    /\ Len(features) = 2
    /\ Len(TokensOf(1)) < call.max_length
    /\ Len(features[1].input_ids) = call.max_length

\* ---- C2
\* the segment id the tokenizer gives the j-th token of the k-th example
SegmentIdOf(k, j) ==
    EncodePlus(tokenizer, call.examples[k].text_a, call.examples[k].text_b,
               call.max_length).token_type_ids[j]

HasEnvValue(e) == HasEnvAttr(e) /\ e.env # NoneEnv

\* C2: in every feature record the positions of the real tokens hold the
\* example's env when it has one and the constant segment id when it has none,
\* and the padded positions hold pad_token_segment_id.
C2_SegmentIdsCarryEnvOrConstant ==
    \A k \in 1..Len(features) :
        LET e == call.examples[k]
            n == Len(TokensOf(k))
            padding == call.max_length - n
            tt == features[k].token_type_ids
        IN  \A j \in 1..Len(tt) :
                LET real == IF call.pad_on_left THEN j > padding ELSE j <= n
                    pos == IF call.pad_on_left THEN j - padding ELSE j
                IN  IF real
                    THEN tt[j] = (IF HasEnvValue(e) THEN e.env ELSE SegmentIdOf(k, pos))
                    ELSE tt[j] = call.pad_token_segment_id

\* ---- C3
\* C3: the encoder appends the features of the examples in order, one per
\* example, and passes no example it cannot encode: a returned list holds the
\* encoding of every example of the call at the example's place, and a call that
\* raised did so at the first example that cannot be encoded and returned nothing.
C3_AllOrNothingInOrder ==
    estatus \in {"running", "returned", "raised"} =>
        /\ Len(features) = ex_index
        /\ \A k \in 1..Len(features) :
               LET r == ConvertExample(call, tokenizer, output_mode, label_map,
                                       call.examples[k])
               IN  r.err = "" /\ features[k] = r.feature
        /\ EncReturned => Len(features) = Len(call.examples)
        /\ EncRaised =>
               /\ ex_index < Len(call.examples)
               /\ ConvertExample(call, tokenizer, output_mode, label_map,
                                 call.examples[ex_index + 1]).err = eerror
               /\ eerror # ""

\* the second example of a call fails after the first was encoded
C3_Witness ==
    /\ EncRaised
    /\ ex_index = 1
    /\ Len(features) = 1
    /\ Len(call.examples) = 2

\* ---- C4
LabelKnown(k) == InLabelMap(GetLabels, call.examples[k].label)

\* C4: an example of exactly max_length tokens is emitted with no padding
\* element; an example of more than max_length tokens makes the call fail with
\* the length assertion, with padding on the left and on the right, and is never
\* emitted.
C4_ExactFitsAndOverlongAsserts ==
    estatus \in {"running", "returned", "raised"} =>
        /\ \A k \in 1..Len(features) :
               /\ Len(TokensOf(k)) <= call.max_length
               /\ Len(TokensOf(k)) = call.max_length => features[k].input_ids = TokensOf(k)
        /\ (EncRaised /\ Len(TokensOf(ex_index + 1)) = call.max_length)
               => ~LabelKnown(ex_index + 1)
        /\ (EncRaised /\ Len(TokensOf(ex_index + 1)) > call.max_length)
               => eerror = "AssertionError"

\* The same with the examples that have an env attribute: the part of C4 that
\* the missing attribute of InputExample does not reach.
C4_HoldsOfEnvInputExamples ==
    (estatus \in {"running", "returned", "raised"}
        /\ \A k \in 1..Len(call.examples) : HasEnvAttr(call.examples[k]))
    => C4_ExactFitsAndOverlongAsserts

\* ---- C13
\* the Python index (from 0) of the first position of the non-padded span of the
\* k-th record: the padding stands before it when pad_on_left
SpanStart(k) == IF call.pad_on_left THEN call.max_length - Len(TokensOf(k)) ELSE 0

\* C13: in every feature record the non-padded span of input_ids, the first
\* len positions without pad_on_left and the last len positions with it, holds
\* the token ids the tokenizer returned, in order; every other position holds
\* pad_token; attention_mask holds the real marker on exactly that span and the
\* opposite marker on the padded positions.
C13_SpanRecoversTokenIds ==
    \A k \in 1..Len(features) :
        LET toks == TokensOf(k)
            n == Len(toks)
            start == SpanStart(k)
            real == IF call.mask_padding_with_zero THEN 1 ELSE 0
            ids == features[k].input_ids
            mask == features[k].attention_mask
        IN  /\ n <= call.max_length
            /\ SubSeq(ids, start + 1, start + n) = toks
            /\ \A j \in 1..Len(ids) :
                   IF j > start /\ j <= start + n
                   THEN mask[j] = real
                   ELSE ids[j] = call.pad_token /\ mask[j] = 1 - real

\* a returned record padded on the left, the mask marking real tokens with 0
C13_Witness ==
    /\ EncReturned
    /\ Len(features) >= 1
    /\ call.pad_on_left
    /\ ~call.mask_padding_with_zero
    /\ SpanStart(1) > 0
    /\ features[1].input_ids[1] = call.pad_token
    /\ features[1].attention_mask[call.max_length] = 0

\* ------------------------------------------------------ the stripper's claims
\* the word occurs in the line
Contains(word, line) ==
    \E j \in 1..(Len(line) - Len(word) + 1) : SubSeq(line, j, j + Len(word) - 1) = word

Reverse(ws) == [k \in 1..Len(ws) |-> ws[Len(ws) - k + 1]]

\* ---- C11
\* C11: the stripper writes one line per input line, in input order; a written
\* line holds no occurrence of any listed word, and it is the line the words
\* leave in whatever order they are listed.
C11_NoListedWordRemains ==
    sstatus \in {"running", "done"} =>
        /\ Len(fw) = f_pos
        /\ sstatus = "done" => Len(fw) = Len(in_file)
        /\ \A k \in 1..Len(fw) :
               /\ \A j \in 1..Len(bias_words) : ~Contains(bias_words[j], fw[k])
               /\ fw[k] = RemoveWords(Reverse(bias_words), in_file[k])

\* What holds of the written lines: one per input line, in input order, each
\* the outcome of the passes in list order.
C11_OneLinePerInputLine ==
    sstatus \in {"running", "done"} =>
        /\ Len(fw) = f_pos
        /\ sstatus = "done" => Len(fw) = Len(in_file)
        /\ \A k \in 1..Len(fw) : fw[k] = RemoveWords(bias_words, in_file[k])

\* ------------------------------------------------------- the merger's claims
\* the data rows of the records file
RecordRows == IF Len(records_file) = 0 THEN 0 ELSE Len(records_file) - 1

\* the tab-separated fields of the k-th line of the predictions file
TabFields(k) == Split(preds_file[k], TAB)

HasComma(line) == \E j \in 1..Len(line) : line[j] = COMMA

\* the rows of a merged file: the first the header with the two names, row k + 1
\* the k-th data row with the two cells last(k) gives
MergedRows(rows, last(_)) ==
    /\ Len(rows) = Len(records_file)
    /\ rows[1] = records_file[1] \o <<Cell("invariant"), Cell("variant")>>
    /\ \A k \in 1..RecordRows : rows[k + 1] = records_file[k + 1] \o last(k)

\* ---- C12
\* C12: when the merger succeeds, the output holds the rows of the records file
\* in order, each with its cells unchanged and two more: 'invariant' and
\* 'variant' in the header row, and in the k-th data row the tab-separated fields
\* 1 and 2 of the k-th line of the predictions file; further prediction lines
\* are ignored.
C12_AppendsFieldsOfPredictionLines ==
    mstatus = "done" =>
        /\ out_file # None
        /\ \A k \in 1..RecordRows : k <= Len(preds_file) /\ Len(TabFields(k)) >= 3
        /\ LET FieldsOfLine(k) == <<TabFields(k)[2], TabFields(k)[3]>>
           IN  MergedRows(out_file[1], FieldsOfLine)

\* The same of the runs whose used prediction lines hold no comma.
C12_HoldsOfCommaFreeLines ==
    (\A k \in 1..RecordRows : k <= Len(preds_file) => ~HasComma(preds_file[k]))
        => C12_AppendsFieldsOfPredictionLines

\* What the appended cells are in every successful run: fields 1 and 2 of the
\* first cell csv.reader finds in the k-th line.
C12_AppendsFieldsOfFirstCells ==
    mstatus = "done" =>
        /\ out_file # None
        /\ \A k \in 1..RecordRows :
               /\ k <= Len(preds_file)
               /\ preds_file[k] # <<>>
               /\ Len(Split(Split(preds_file[k], COMMA)[1], TAB)) >= 3
        /\ LET FieldsOfCell(k) ==
                   LET pred == Split(Split(preds_file[k], COMMA)[1], TAB)
                   IN  <<pred[2], pred[3]>>
           IN  MergedRows(out_file[1], FieldsOfCell)

\* ---- C15
\* the output path holds what it held before the run, or still nothing
OutputUntouched == out_file \in {None, Some(OldOutput)}

\* the three cases of C15: no row in the records file, fewer prediction lines
\* than data rows, or a used prediction line of fewer than three fields
MergeCannotSucceed ==
    \/ Len(records_file) = 0
    \/ Len(preds_file) < RecordRows
    \/ \E k \in 1..RecordRows : k <= Len(preds_file) /\ Len(TabFields(k)) < 3

\* C15: the merger opens the output only after every row of the records has been
\* extended.  A run on an empty records file, on fewer prediction lines than
\* data rows, or on a used prediction line of fewer than three tab-separated
\* fields never opens it: the output path is neither created nor emptied, and
\* a run that has raised has written nothing.
C15_FailsBeforeOutputIsOpened ==
    /\ mstatus \in {"start", "looping", "raised"} => OutputUntouched
    /\ mstatus \in {"writing", "done"} =>
           /\ Len(c_rows) = Len(records_file)
           /\ \A k \in 1..Len(c_rows) : Len(c_rows[k]) = Len(records_file[k]) + 2
    /\ MergeCannotSucceed => (OutputUntouched /\ mstatus \in {"start", "looping", "raised"})

\* the second data row finds a line of two fields after the first row was
\* extended; the file found at the output path is as it was
C15_Witness ==
    /\ mstatus = "raised"
    /\ loop_i = 2
    /\ Len(c_rows[2]) = Len(records_file[2]) + 2
    /\ Len(preds_file) = 2
    /\ Len(TabFields(2)) = 2
    /\ out_file = Some(OldOutput)

\* ---- C14
\* the call has ended and, where it raised, it was the label of the example at
\* ex_index that raised err; every record before it carries the label of its
\* example as kind and Value give it, and a label that Resolves never raises
LabelsResolveAs(kind, Resolves(_), Value(_), err) ==
    estatus \in {"returned", "raised"} =>
        /\ \A k \in 1..Len(features) :
               /\ Resolves(call.examples[k].label)
               /\ features[k].label = [kind |-> kind, val |-> Value(call.examples[k].label)]
        /\ EncReturned => Len(features) = Len(call.examples)
        /\ EncRaised =>
               /\ eerror = err
               /\ ex_index < Len(call.examples)
               /\ ~Resolves(call.examples[ex_index + 1].label)

\* a call without task that supplies a label list, in classification mode
ClassificationCall ==
    /\ call.task = None
    /\ call.label_list # None
    /\ call.output_mode = Some("classification")

\* a call without task that gives the regression mode and no label list
RegressionCall ==
    /\ call.task = None
    /\ call.label_list = None
    /\ call.output_mode = Some("regression")

ListedLabel(label) == InLabelMap(GetLabels, label)
IndexOfLabel(label) == LabelIndex(GetLabels, label)

\* C14: in classification mode the label of a record is the index of the
\* example's label in the supplied list, and a label that is not in the list
\* makes the call fail with KeyError; in regression mode, given instead of a
\* label list and without a task, the label of a record is the float the
\* example's label parses to, and a label that does not parse makes the call
\* fail with ValueError.
C14_LabelsResolveByMode ==
    /\ ClassificationCall => LabelsResolveAs("int", ListedLabel, IndexOfLabel, "KeyError")
    /\ RegressionCall => LabelsResolveAs("float", FloatParses, FloatTenths, "ValueError")

\* What holds: the classification half, and the regression half of the calls
\* that pass a label list as well.
C14_HoldsWithLabelList ==
    /\ ClassificationCall => LabelsResolveAs("int", ListedLabel, IndexOfLabel, "KeyError")
    /\ (call.task = None /\ call.label_list # None /\ call.output_mode = Some("regression"))
           => LabelsResolveAs("float", FloatParses, FloatTenths, "ValueError")

====
